---------------------------- MODULE Spec2Model ----------------------------
(***************************************************************************)
(* A model of the notebook 2_Attention.ipynb: the character tokenizer and  *)
(* get_batch of its first code cell, and the single-head causal scaled     *)
(* dot-product attention of its second code cell.                          *)
(*                                                                         *)
(* Conventions.  Python indexes from 0 and TLA+ sequences from 1: position *)
(* i of the source is position i+1 here; token ids keep their 0-based      *)
(* values.  Characters are their code points.  A tensor is a record        *)
(* [shape, data]: shape is the tuple torch reports, data the nested        *)
(* sequences of entries.  Real numbers are fixed-point integers in units   *)
(* of 1/ONE; -inf and NaN are the two sentinels NEG_INF and NAN.           *)
(***************************************************************************)
EXTENDS Integers, Sequences, FiniteSets, TLC

VARIABLES
    pc,         \* position in the notebook
    err,        \* "none", or the exception that ended the run
    s,          \* the argument of the encode call under test
    enc,        \* encode(s): a sequence of ids, or KeyError
    dec,        \* decode(enc)
    text_enc,   \* encode(text)
    text_dec,   \* decode(text_enc)
    data,       \* torch.LongTensor(text_enc)
    ix,         \* the start indices get_batch drew
    x,          \* cell 2: the batch of token ids; cell 3: emb_pos + emb_tok
    y,          \* the batch of target ids
    B, T, C,    \* the dimensions unpacked from x.shape
    head_size,  \* the head dimension H
    emb_tok,    \* token_embedding_table(x)
    emb_pos,    \* position_embedding_table(arange(T))
    key, query, value,  \* the three bias-free Linear layers (their weights)
    k, q, v,    \* key(x), query(x), value(x)
    W,          \* the compatibility matrix, raw then scaled, masked, normalised
    tril,       \* the causal mask
    out,        \* W @ v
    v2, out2,   \* a second run of the last two lines on perturbed values
    pert,       \* the perturbation of that second run
    run,        \* how many times cell 3 has been started
    prev        \* the weights and the output of the previous run of cell 3

vars == <<pc, err, s, enc, dec, text_enc, text_dec, data, ix, x, y, B, T, C,
          head_size, emb_tok, emb_pos, key, query, value, k, q, v, W, tril,
          out, v2, out2, pert, run, prev>>

tokVars   == <<s, enc, dec>>
batchVars == <<text_enc, text_dec, data, ix, y>>
attnVars  == <<head_size, emb_tok, emb_pos, key, query, value, k, q, v, W,
               tril, out, v2, out2, pert, run, prev, C>>

None == "None"

----------------------------------------------------------------------------
(* Generic helpers *)

Min(a, b) == IF a < b THEN a ELSE b
Max(a, b) == IF a > b THEN a ELSE b

Range(a, b) == [n \in 1..(b - a + 1) |-> a + n - 1]

RECURSIVE SumSeq(_)
SumSeq(sq) == IF sq = <<>> THEN 0 ELSE Head(sq) + SumSeq(Tail(sq))

----------------------------------------------------------------------------
(* Cell 2: tokenizer *)

whitespace    == <<32, 9, 10, 13, 11, 12>>
ascii_letters == Range(97, 122) \o Range(65, 90)
digits        == Range(48, 57)
punctuation   == Range(33, 47) \o Range(58, 64) \o Range(91, 96) \o Range(123, 126)

vocab      == whitespace \o ascii_letters \o digits \o punctuation
vocab_size == Len(vocab)

\* { ch:i for i,ch in enumerate(vocab) }: a later index overwrites an earlier one
vtoi == [ch \in {vocab[n] : n \in 1..Len(vocab)} |->
            (CHOOSE n \in 1..Len(vocab) :
                /\ vocab[n] = ch
                /\ \A m \in (n + 1)..Len(vocab) : vocab[m] # ch) - 1]

\* { i:ch for i,ch in enumerate(vocab) }
itov == [i \in 0..(Len(vocab) - 1) |-> vocab[i + 1]]

KeyError == "KeyError"

\* The result of a call: the value returned, or the exception raised
Returns(val) == [raised |-> "none", val |-> val]
Raises(exc)  == [raised |-> exc, val |-> <<>>]

\* the mutant: a lookup that falls back to id 0 on a missing character
encode_get(str) ==
    Returns([n \in 1..Len(str) |->
                IF str[n] \in DOMAIN vtoi THEN vtoi[str[n]] ELSE 0])

\* encode = lambda v: [vtoi[ch] for ch in v]
encode(str) ==
    IF \A n \in 1..Len(str) : str[n] \in DOMAIN vtoi
    THEN Returns([n \in 1..Len(str) |-> vtoi[str[n]]])
    ELSE Raises(KeyError)

\* decode = lambda t: [itov[i] for i in t]
decode(t) ==
    IF \A n \in 1..Len(t) : t[n] \in DOMAIN itov
    THEN Returns([n \in 1..Len(t) |-> itov[t[n]]])
    ELSE Raises(KeyError)

\* "Attention is all you need"
text == <<65, 116, 116, 101, 110, 116, 105, 111, 110, 32, 105, 115, 32,
          97, 108, 108, 32, 121, 111, 117, 32, 110, 101, 101, 100>>

block_size == 4
n_embd     == 5
batch_size == 2

----------------------------------------------------------------------------
(* Cell 2: get_batch *)

\* Python's d[lo:hi] for 0 <= lo <= hi: the bounds are clamped to len(d)
Slice(d, lo, hi) ==
    LET l == Min(lo, Len(d))
        h == Min(hi, Len(d))
    IN  [n \in 1..(h - l) |-> d[l + n]]

\* the mutant: start indices drawn over the whole of text_enc
randint_high_len(te) == Len(te)

\* the exclusive upper end of torch.randint(0, len(text_enc)-block_size-1, ...)
randint_high(te) == Len(te) - block_size - 1

\* the size argument of that randint: (block_size,)
ix_count == block_size

\* torch.stack of equally long rows; rows of different lengths raise
Stackable(rows) == \A r \in 1..Len(rows) : Len(rows[r]) = Len(rows[1])

Stack(rows) ==
    [shape |-> <<Len(rows), IF Len(rows) = 0 THEN 0 ELSE Len(rows[1])>>,
     data  |-> rows]

----------------------------------------------------------------------------
(* Tensors and the torch operations cell 3 uses *)

\* The unit of the fixed-point numbers that stand for torch's floats
ONE == 10000

\* float('-inf'), and the NaN a softmax over a row of -inf produces
NEG_INF == -1000000000
NAN     == 1000000000

RuntimeError      == "RuntimeError"
ZeroDivisionError == "ZeroDivisionError"

\* the sum of a sequence of floats: NaN if any term is
SumNaN(sq) == IF \E n \in 1..Len(sq) : sq[n] = NAN THEN NAN ELSE SumSeq(sq)

\* a product of two floats one of which may be NaN
MulNaN(a, b) == IF a = NAN \/ b = NAN THEN NAN ELSE a * b

\* emb_pos + emb_tok: a (T,C) tensor broadcast over the batch of a (B,T,C) one
AddBroadcast(p, t) ==
    [shape |-> <<t.shape[1], t.shape[2], t.shape[3]>>,
     data  |->
       [b \in 1..t.shape[1] |->
         [i \in 1..t.shape[2] |->
           [c \in 1..t.shape[3] |->
             p.data[i][c] + t.data[b][i][c]]]]]

\* an entry of a randomly initialised table: -1, 0 or 1
Gen(seed, n) == ((((seed + 2) * n * n + (seed + 1) * 5 * n + seed) % 7) % 3) - 1

\* the mutant: a layer that ignores out_features and keeps the input size
LinearWeight_square(in_features, out_features, seed) ==
    [shape |-> <<in_features, in_features>>,
     data  |->
       [h \in 1..in_features |->
         [c \in 1..in_features |->
           Gen(seed, (h - 1) * in_features + c)]]]

\* the weight of nn.Linear(in_features, out_features, bias=False), of shape
\* (out_features, in_features), under the initialisation number seed
LinearWeight(in_features, out_features, seed) ==
    [shape |-> <<out_features, in_features>>,
     data  |->
       [h \in 1..out_features |->
         [c \in 1..in_features |->
           Gen(seed, (h - 1) * in_features + c)]]]

\* layer(input) = input @ weight^T, over the last dimension of input
LinearApply(layer, input) ==
    [shape |-> <<input.shape[1], input.shape[2], layer.shape[1]>>,
     data  |->
       [b \in 1..input.shape[1] |->
         [i \in 1..input.shape[2] |->
           [h \in 1..layer.shape[1] |->
             SumSeq([c \in 1..layer.shape[2] |->
                        input.data[b][i][c] * layer.data[h][c]])]]]]

\* whether layer(input) is defined: the inner dimensions agree
LinearOk(layer, input) == input.shape[3] = layer.shape[2]

\* t.transpose(-2, -1)
Transpose(t) ==
    [shape |-> <<t.shape[1], t.shape[3], t.shape[2]>>,
     data  |->
       [b \in 1..t.shape[1] |->
         [i \in 1..t.shape[3] |->
           [j \in 1..t.shape[2] |->
             t.data[b][j][i]]]]]

\* a @ b, batched: (B,n,m) @ (B,m,p) -> (B,n,p)
MatMul(a, b) ==
    [shape |-> <<a.shape[1], a.shape[2], b.shape[3]>>,
     data  |->
       [bi \in 1..a.shape[1] |->
         [i \in 1..a.shape[2] |->
           [j \in 1..b.shape[3] |->
             SumNaN([l \in 1..a.shape[3] |->
                        MulNaN(a.data[bi][i][l], b.data[bi][l][j])])]]]]

MatMulOk(a, b) == a.shape[1] = b.shape[1] /\ a.shape[3] = b.shape[2]

\* the largest n in lo..hi with n*n <= target (lo*lo <= target)
RECURSIVE ISqrtIn(_, _, _)
ISqrtIn(target, lo, hi) ==
    IF lo >= hi THEN lo
    ELSE LET mid == (lo + hi + 1) \div 2
         IN  IF mid * mid <= target
             THEN ISqrtIn(target, mid, hi)
             ELSE ISqrtIn(target, lo, mid - 1)

\* d ** -0.5 for an integer d >= 1, as a fixed-point number
InvSqrt(d) == ISqrtIn((ONE * ONE) \div d, 0, ONE)

\* W * f for a float f: integer entries times a fixed-point factor
Scale(t, f) ==
    [shape |-> <<t.shape[1], t.shape[2], t.shape[3]>>,
     data  |->
       [b \in 1..t.shape[1] |->
         [i \in 1..t.shape[2] |->
           [j \in 1..t.shape[3] |->
             t.data[b][i][j] * f]]]]

\* torch.ones(n, m)
Ones(n, m) ==
    [shape |-> <<n, m>>,
     data  |->
       [i \in 1..n |->
         [j \in 1..m |->
           1]]]

\* the mutant: the strict upper part zeroed instead (torch.triu)
Triu(m) ==
    [shape |-> <<m.shape[1], m.shape[2]>>,
     data  |->
       [i \in 1..m.shape[1] |->
         [j \in 1..m.shape[2] |->
           IF j >= i THEN m.data[i][j] ELSE 0]]]

\* torch.tril(m): the entries above the main diagonal zeroed
Tril(m) ==
    [shape |-> <<m.shape[1], m.shape[2]>>,
     data  |->
       [i \in 1..m.shape[1] |->
         [j \in 1..m.shape[2] |->
           IF j <= i THEN m.data[i][j] ELSE 0]]]

\* m == 0, elementwise
EqZero(m) ==
    [shape |-> <<m.shape[1], m.shape[2]>>,
     data  |->
       [i \in 1..m.shape[1] |->
         [j \in 1..m.shape[2] |->
           m.data[i][j] = 0]]]

\* the mutant: the masked scores set to 0 instead of val
MaskedFill_zero(t, mask, val) ==
    [shape |-> <<t.shape[1], t.shape[2], t.shape[3]>>,
     data  |->
       [b \in 1..t.shape[1] |->
         [i \in 1..t.shape[2] |->
           [j \in 1..t.shape[3] |->
             IF mask.data[i][j] THEN 0 ELSE t.data[b][i][j]]]]]

\* t.masked_fill(mask, val): a (T,T) boolean mask broadcast over the batch
MaskedFill(t, mask, val) ==
    [shape |-> <<t.shape[1], t.shape[2], t.shape[3]>>,
     data  |->
       [b \in 1..t.shape[1] |->
         [i \in 1..t.shape[2] |->
           [j \in 1..t.shape[3] |->
             IF mask.data[i][j] THEN val ELSE t.data[b][i][j]]]]]

\* 1 - r + r^2/2! - ... for 0 <= r <= ONE, from term number n on
RECURSIVE ExpSeries(_, _, _)
ExpSeries(r, n, term) ==
    IF term = 0 THEN 0
    ELSE term - ExpSeries(r, n + 1, (term * r) \div ((n + 1) * ONE))

\* acc * exp(-d) for d >= 0
RECURSIVE ExpNegAcc(_, _)
ExpNegAcc(d, acc) ==
    IF acc = 0 THEN 0
    ELSE IF d <= ONE THEN (acc * ExpSeries(d, 0, ONE)) \div ONE
    ELSE ExpNegAcc(d - ONE, (acc * ExpSeries(ONE, 0, ONE)) \div ONE)

\* exp(-d) for d >= 0
ExpNeg(d) == ExpNegAcc(d, ONE)

RECURSIVE MaxSeq(_)
MaxSeq(sq) == IF Len(sq) = 1 THEN sq[1] ELSE Max(Head(sq), MaxSeq(Tail(sq)))

\* the softmax of one non-empty row, the row maximum subtracted first;
\* exp(-inf) is 0, and a row of -inf alone gives NaN (inf - inf)
SoftmaxRow(row) ==
    LET m == MaxSeq(row)
        e == [j \in 1..Len(row) |->
                 IF row[j] = NEG_INF THEN 0 ELSE ExpNeg(m - row[j])]
        z == SumSeq(e)
    IN  IF m = NEG_INF
        THEN [j \in 1..Len(row) |-> NAN]
        ELSE [j \in 1..Len(row) |-> (e[j] * ONE) \div z]

\* the mutant: normalised over dim=-2, the query positions
Softmax_dim2(t) ==
    [shape |-> <<t.shape[1], t.shape[2], t.shape[3]>>,
     data  |->
       [b \in 1..t.shape[1] |->
         [i \in 1..t.shape[2] |->
           [j \in 1..t.shape[3] |->
             SoftmaxRow([l \in 1..t.shape[2] |-> t.data[b][l][j]])[i]]]]]

\* F.softmax(t, dim=-1)
Softmax(t) ==
    [shape |-> <<t.shape[1], t.shape[2], t.shape[3]>>,
     data  |->
       [b \in 1..t.shape[1] |->
         [i \in 1..t.shape[2] |->
           [j \in 1..t.shape[3] |->
             SoftmaxRow(t.data[b][i])[j]]]]]

----------------------------------------------------------------------------
(* Bounds of the model *)

MaxStrLen  == 3    \* the longest argument of the encode call under test
MaxChar    == 127  \* one-character arguments range over the codes 0..MaxChar
MaxEmbSeed == 1    \* the embedding tables are drawn from 0..MaxEmbSeed
MaxSeed    == 1    \* the layers' initialisations are drawn from 0..MaxSeed
MaxB       == 2    \* the small configurations: B in 1..MaxB,
MaxT       == 2    \*   T in 0..MaxT,
MaxC       == 2    \*   C in 0..MaxC,
MaxH       == 2    \*   H in 0..MaxH

\* head_size = 6
HEAD_SIZE == 6

\* characters of the longer test strings: A, t, space, ~, and NUL and e-acute,
\* which are not in the vocabulary
SampleChars == {65, 116, 32, 126, 0, 233}

TestStrings ==
    UNION {[1..n -> SampleChars] : n \in 0..MaxStrLen}
    \cup {<<ch>> : ch \in 0..MaxChar}

Seeds    == 0..MaxSeed
EmbSeeds == 0..MaxEmbSeed

\* a token id of the batch cell 2 left
IdGen(seed, n) == (seed * 37 + n * 11) % vocab_size

\* (B, T, C, H): the notebook's own dimensions, the (2,4,5) input with H = 6,
\* and every small configuration, degenerate ones included
Configs ==
    {<<ix_count, block_size, n_embd, HEAD_SIZE>>,
     <<batch_size, block_size, n_embd, HEAD_SIZE>>}
    \cup ((1..MaxB) \X (0..MaxT) \X (0..MaxC) \X (0..MaxH))

\* the changes the second run makes to the value vectors
Deltas == {1, -2}

Perts(nb, nt) == [b : 1..nb, i : 1..nt, d : Deltas]

NoPert == [b |-> 0, i |-> 0, d |-> 0]

\* v with d added to every entry of batch element p.b at positions after p.i
Perturb(t, p) ==
    [shape |-> <<t.shape[1], t.shape[2], t.shape[3]>>,
     data  |->
       [b \in 1..t.shape[1] |->
         [j \in 1..t.shape[2] |->
           [h \in 1..t.shape[3] |->
             IF b = p.b /\ j > p.i
             THEN t.data[b][j][h] + p.d
             ELSE t.data[b][j][h]]]]]

----------------------------------------------------------------------------
(* The encode and decode calls *)

InitTok ==
    /\ pc = "encode_call"
    /\ err = "none"
    /\ s \in TestStrings
    /\ enc = None /\ dec = None
    /\ text_enc = None /\ text_dec = None /\ data = None
    /\ ix = None /\ x = None /\ y = None
    /\ B = None /\ T = None /\ C = None
    /\ head_size = None /\ emb_tok = None /\ emb_pos = None
    /\ key = None /\ query = None /\ value = None
    /\ k = None /\ q = None /\ v = None /\ W = None /\ tril = None
    /\ out = None /\ v2 = None /\ out2 = None /\ pert = NoPert
    /\ run = None /\ prev = None

\* encode(s)
Encode ==
    /\ pc = "encode_call"
    /\ LET r == encode(s)
       IN  IF r.raised # "none"
           THEN pc' = "failed" /\ err' = r.raised /\ enc' = enc
           ELSE pc' = "decode_call" /\ err' = err /\ enc' = r.val
    /\ UNCHANGED <<s, dec, batchVars, attnVars, x, B, T>>

\* decode(encode(s))
Decode ==
    /\ pc = "decode_call"
    /\ LET r == decode(enc)
       IN  IF r.raised # "none"
           THEN pc' = "failed" /\ err' = r.raised /\ dec' = dec
           ELSE pc' = "tok_done" /\ err' = err /\ dec' = r.val
    /\ UNCHANGED <<s, enc, batchVars, attnVars, x, B, T>>

NextTok == Encode \/ Decode

SpecTok == InitTok /\ [][NextTok]_vars

----------------------------------------------------------------------------
(* Cell 2 up to B, T = x.shape *)

InitBatch ==
    /\ pc = "cell2"
    /\ err = "none"
    /\ s = None /\ enc = None /\ dec = None
    /\ text_enc = None /\ text_dec = None /\ data = None
    /\ ix = None /\ x = None /\ y = None
    /\ B = None /\ T = None /\ C = None
    /\ head_size = None /\ emb_tok = None /\ emb_pos = None
    /\ key = None /\ query = None /\ value = None
    /\ k = None /\ q = None /\ v = None /\ W = None /\ tril = None
    /\ out = None /\ v2 = None /\ out2 = None /\ pert = NoPert
    /\ run = None /\ prev = None

\* text_enc = encode(text); text_dec = decode(text_enc); data = LongTensor(text_enc)
Tokenize ==
    /\ pc = "cell2"
    /\ LET te == encode(text)
           td == decode(te.val)
       IN  IF te.raised # "none" \/ td.raised # "none"
           THEN /\ pc' = "failed" /\ err' = KeyError
                /\ UNCHANGED <<text_enc, text_dec, data>>
           ELSE /\ text_enc' = te.val
                /\ text_dec' = td.val
                /\ data' = te.val
                /\ pc' = "tokenized" /\ err' = err
    /\ UNCHANGED <<tokVars, attnVars, ix, x, y, B, T>>

\* x, y = get_batch(); B, T = x.shape
GetBatch ==
    /\ pc = "tokenized"
    /\ \E i \in [1..ix_count -> 0..(randint_high(text_enc) - 1)] :
          LET xs == [r \in 1..ix_count |-> Slice(data, i[r], i[r] + block_size)]
              ys == [r \in 1..ix_count |->
                        Slice(data, i[r] + 1, i[r] + block_size + 1)]
          IN  /\ ix' = i
              /\ IF Stackable(xs) /\ Stackable(ys)
                 THEN /\ x' = Stack(xs)
                      /\ y' = Stack(ys)
                      /\ B' = x'.shape[1]
                      /\ T' = x'.shape[2]
                      /\ pc' = "batched" /\ err' = err
                 ELSE /\ pc' = "failed" /\ err' = RuntimeError
                      /\ UNCHANGED <<x, y, B, T>>
    /\ UNCHANGED <<tokVars, attnVars, text_enc, text_dec, data>>

NextBatch == Tokenize \/ GetBatch

SpecBatch == InitBatch /\ [][NextBatch]_vars

----------------------------------------------------------------------------
(* Cell 3: one head of self-attention *)

\* nn.Embedding(vocab_size, n_embd) under the initialisation number seed
token_embedding_table(seed, dim) ==
    [shape |-> <<vocab_size, dim>>,
     data  |->
       [id \in 1..vocab_size |->
         [c \in 1..dim |-> Gen(seed, (id - 1) * dim + c)]]]

\* nn.Embedding(block_size, n_embd) under the initialisation number seed
position_embedding_table(seed, rows, dim) ==
    [shape |-> <<rows, dim>>,
     data  |->
       [i \in 1..rows |->
         [c \in 1..dim |-> Gen(seed + 5, (i - 1) * dim + c)]]]

\* table(ids) for a (B,T) tensor of ids: the rows of the table the ids name
Embedding2(table, ids) ==
    [shape |-> <<ids.shape[1], ids.shape[2], table.shape[2]>>,
     data  |->
       [b \in 1..ids.shape[1] |->
         [i \in 1..ids.shape[2] |-> table.data[ids.data[b][i] + 1]]]]

\* table(torch.arange(n)): the first n rows of the table
Embedding1(table, n) ==
    [shape |-> <<n, table.shape[2]>>,
     data  |-> [i \in 1..n |-> table.data[i]]]

\* a batch of nb sequences of nt token ids; shift 1 gives the targets
IdBatch(nb, nt, seed, shift) ==
    [shape |-> <<nb, nt>>,
     data  |->
       [b \in 1..nb |->
         [i \in 1..nt |-> IdGen(seed, (b - 1) * nt + i + shift)]]]

\* The state cell 2 leaves, for every configuration (B,T,C,H) and every
\* initialisation of the two embedding tables: a batch x of token ids of
\* shape (B,T), its targets y, and the embeddings emb_tok of shape (B,T,C)
\* and emb_pos of shape (T,C).  Cell 3 is a function of these inputs and of
\* head_size; the configurations are the shapes it is checked on.
InitAttn ==
    \E cfg \in Configs, es \in EmbSeeds :
       /\ pc = "cell3"
       /\ err = "none"
       /\ s = None /\ enc = None /\ dec = None
       /\ text_enc = None /\ text_dec = None /\ data = None /\ ix = None
       /\ x = IdBatch(cfg[1], cfg[2], es, 0)
       /\ y = IdBatch(cfg[1], cfg[2], es, 1)
       /\ B = cfg[1] /\ T = cfg[2] /\ C = None
       /\ head_size = cfg[4]
       /\ emb_tok = Embedding2(token_embedding_table(es, cfg[3]), x)
       /\ emb_pos = Embedding1(position_embedding_table(es, cfg[2], cfg[3]),
                               cfg[2])
       /\ key = None /\ query = None /\ value = None
       /\ k = None /\ q = None /\ v = None /\ W = None /\ tril = None
       /\ out = None /\ v2 = None /\ out2 = None /\ pert = NoPert
       /\ run = "first" /\ prev = None

Fail(exc) == pc' = "failed" /\ err' = exc

\* the mutant: the sum accumulated in place, emb_tok += emb_pos; x = emb_tok
SumEmbeddings_inplace ==
    /\ pc = "cell3"
    /\ x' = AddBroadcast(emb_pos, emb_tok)
    /\ emb_tok' = x'
    /\ B' = x'.shape[1] /\ T' = x'.shape[2] /\ C' = x'.shape[3]
    /\ pc' = "summed"
    /\ UNCHANGED <<err, tokVars, batchVars, head_size, emb_pos, key, query,
                   value, k, q, v, W, tril, out, v2, out2, pert, run, prev>>

\* x = emb_pos + emb_tok; B,T,C = x.shape
SumEmbeddings ==
    /\ pc = "cell3"
    /\ IF emb_pos.shape = <<emb_tok.shape[2], emb_tok.shape[3]>>
       THEN /\ x' = AddBroadcast(emb_pos, emb_tok)
            /\ B' = x'.shape[1] /\ T' = x'.shape[2] /\ C' = x'.shape[3]
            /\ pc' = "summed" /\ err' = err
       ELSE Fail(RuntimeError) /\ UNCHANGED <<x, B, T, C>>
    /\ UNCHANGED <<tokVars, batchVars, head_size, emb_tok, emb_pos, key, query,
                   value, k, q, v, W, tril, out, v2, out2, pert, run, prev>>

\* the mutant: the two sizes of nn.Linear swapped
LinearArgs_swapped(c, h) == <<h, c>>

\* the (in_features, out_features) the three layers are built with
LinearArgs(c, h) == <<c, h>>

\* key = nn.Linear(C, head_size, bias=False), and query and value alike, each
\* with an initialisation of its own
MakeLayers ==
    /\ pc = "summed"
    /\ \E ws \in Seeds :
          LET a == LinearArgs(C, head_size)
          IN  /\ key'   = LinearWeight(a[1], a[2], 3 * ws + 1)
              /\ query' = LinearWeight(a[1], a[2], 3 * ws + 2)
              /\ value' = LinearWeight(a[1], a[2], 3 * ws + 3)
    /\ pc' = "layers"
    /\ UNCHANGED <<err, tokVars, batchVars, x, B, T, C, head_size, emb_tok,
                   emb_pos, k, q, v, W, tril, out, v2, out2, pert, run, prev>>

\* k = key(x); q = query(x)
Project ==
    /\ pc = "layers"
    /\ IF LinearOk(key, x) /\ LinearOk(query, x)
       THEN /\ k' = LinearApply(key, x)
            /\ q' = LinearApply(query, x)
            /\ pc' = "projected" /\ err' = err
       ELSE Fail(RuntimeError) /\ UNCHANGED <<k, q>>
    /\ UNCHANGED <<tokVars, batchVars, x, B, T, C, head_size, emb_tok, emb_pos,
                   key, query, value, v, W, tril, out, v2, out2, pert, run, prev>>

\* W = q @ k.transpose(-2, -1)
Scores ==
    /\ pc = "projected"
    /\ IF MatMulOk(q, Transpose(k))
       THEN W' = MatMul(q, Transpose(k)) /\ pc' = "scored" /\ err' = err
       ELSE Fail(RuntimeError) /\ W' = W
    /\ UNCHANGED <<tokVars, batchVars, x, B, T, C, head_size, emb_tok, emb_pos,
                   key, query, value, k, q, v, tril, out, v2, out2, pert, run,
                   prev>>

\* the dimension under the square root of the scale factor
ScaleDim == C

\* W = W * C ** -0.5; Python's 0 ** -0.5 raises ZeroDivisionError
ScaleScores ==
    /\ pc = "scored"
    /\ IF ScaleDim # 0
       THEN W' = Scale(W, InvSqrt(ScaleDim)) /\ pc' = "scaled" /\ err' = err
       ELSE Fail(ZeroDivisionError) /\ W' = W
    /\ UNCHANGED <<tokVars, batchVars, x, B, T, C, head_size, emb_tok,
                   emb_pos, key, query, value, k, q, v, tril, out, v2, out2,
                   pert, run, prev>>

\* tril = torch.tril(torch.ones(T,T)); W = W.masked_fill(tril == 0, -inf)
Mask ==
    /\ pc = "scaled"
    /\ tril' = Tril(Ones(T, T))
    /\ IF <<W.shape[2], W.shape[3]>> = tril'.shape
       THEN W' = MaskedFill(W, EqZero(tril'), NEG_INF)
            /\ pc' = "masked" /\ err' = err
       ELSE Fail(RuntimeError) /\ W' = W
    /\ UNCHANGED <<tokVars, batchVars, x, B, T, C, head_size, emb_tok, emb_pos,
                   key, query, value, k, q, v, out, v2, out2, pert, run, prev>>

\* W = F.softmax(W, dim=-1)
Normalise ==
    /\ pc = "masked"
    /\ W' = Softmax(W)
    /\ pc' = "normalised"
    /\ UNCHANGED <<err, tokVars, batchVars, x, B, T, C, head_size, emb_tok,
                   emb_pos, key, query, value, k, q, v, tril, out, v2, out2,
                   pert, run, prev>>

\* v = value(x); out = W @ v -- and the same two lines once more on value
\* vectors changed after position pert.i of batch element pert.b
Aggregate ==
    /\ pc = "normalised"
    /\ IF LinearOk(value, x) /\ W.shape[3] = x.shape[2]
       THEN /\ v' = LinearApply(value, x)
            /\ out' = MatMul(W, v')
            /\ \E p \in Perts(B, T) \cup {NoPert} :
                  /\ pert' = p
                  /\ v2' = Perturb(v', p)
                  /\ out2' = MatMul(W, v2')
            /\ pc' = "done" /\ err' = err
       ELSE Fail(RuntimeError) /\ UNCHANGED <<v, out, v2, out2, pert>>
    /\ UNCHANGED <<tokVars, batchVars, x, B, T, C, head_size, emb_tok, emb_pos,
                   key, query, value, k, q, W, tril, run, prev>>

\* the cell run a second time; the run on changed values starts afresh
Rerun ==
    /\ pc = "done"
    /\ run = "first"
    /\ run' = "again"
    /\ prev' = [key |-> key, query |-> query, value |-> value, out |-> out]
    /\ pert' = NoPert /\ v2' = v /\ out2' = out
    /\ pc' = "cell3"
    /\ UNCHANGED <<err, tokVars, batchVars, x, B, T, C, head_size, emb_tok,
                   emb_pos, key, query, value, k, q, v, W, tril, out>>

NextAttn ==
    \/ SumEmbeddings \/ MakeLayers \/ Project \/ Scores \/ ScaleScores
    \/ Mask \/ Normalise \/ Aggregate \/ Rerun

SpecAttn == InitAttn /\ [][NextAttn]_vars

----------------------------------------------------------------------------
(* Properties *)

\* the scores of the current inputs before scaling
RawScores == MatMul(q, Transpose(k))

\* the data of a 3-dimensional tensor has the extents its shape states
WellShaped3(t) ==
    /\ Len(t.data) = t.shape[1]
    /\ \A b \in 1..t.shape[1] :
          /\ Len(t.data[b]) = t.shape[2]
          /\ \A i \in 1..t.shape[2] : Len(t.data[b][i]) = t.shape[3]

\* C1: after masking and softmax every weight W[b,i,j] is a non-negative
\* number, is exactly 0 for every key position j > i, and the weights of
\* row (b,i) over j <= i sum to 1 within the rounding of the T divisions;
\* after masking the diagonal entry of every row is unmasked, so the softmax
\* denominator is at least exp(0) and never zero.
C1_RowStochastic ==
    /\ pc = "masked" =>
          \A b \in 1..B, i \in 1..T : W.data[b][i][i] # NEG_INF
    /\ pc \in {"normalised", "done"} =>
          \A b \in 1..B, i \in 1..T :
             /\ \A j \in 1..T :
                   /\ W.data[b][i][j] # NAN
                   /\ W.data[b][i][j] >= 0
                   /\ j > i => W.data[b][i][j] = 0
             /\ LET total == SumSeq([j \in 1..i |-> W.data[b][i][j]])
                IN  total <= ONE /\ ONE - total < T

\* C1 witness: a normalised row that spreads unequal positive weights over
\* two visible positions, below a masked one.
C1_Witness ==
    /\ pc = "normalised"
    /\ \E b \in 1..B, i \in 2..(T - 1) :
          /\ W.data[b][i][1] > 0
          /\ W.data[b][i][1] # W.data[b][i][i]
          /\ W.data[b][i][i + 1] = 0

\* C2: the rows of the output at or before position pert.i of batch element
\* pert.b, and every row of the other batch elements, are the same in the run
\* on v and in the run on v2, which differ only after position pert.i of
\* batch element pert.b; and each output[b,i] is the combination of
\* value[b,1..i] alone under the weights W[b,i,1..i].
C2_Causality ==
    pc = "done" =>
       \A b \in 1..B, i \in 1..T :
          /\ (b # pert.b \/ i <= pert.i) => out2.data[b][i] = out.data[b][i]
          /\ \A h \in 1..head_size :
                /\ out.data[b][i][h] # NAN
                /\ out.data[b][i][h] =
                      SumSeq([j \in 1..i |-> W.data[b][i][j] * v.data[b][j][h]])

\* C2 witness: a second run whose values differ after position pert.i and
\* whose output differs in a later row of that batch element.
C2_Witness ==
    /\ pc = "done"
    /\ pert.d # 0 /\ pert.i >= 1 /\ pert.i < T
    /\ v2.data[pert.b][pert.i + 1] # v.data[pert.b][pert.i + 1]
    /\ out2.data[pert.b][pert.i + 1] # out.data[pert.b][pert.i + 1]

\* C3 (as claimed): the scaled scores are the raw scores q.k times
\* head_size ** -0.5.
C3_ScaledByHeadSize ==
    (pc = "scaled" /\ head_size >= 1) =>
       W = Scale(RawScores, InvSqrt(head_size))

C5_Shapes ==
    /\ pc \in {"summed", "layers", "projected", "scored", "scaled", "masked",
               "normalised", "done"} =>
          x.shape = <<B, T, C>> /\ WellShaped3(x)
    /\ pc \in {"projected", "scored", "scaled", "masked", "normalised",
               "done"} =>
          /\ k.shape = <<B, T, head_size>> /\ WellShaped3(k)
          /\ q.shape = <<B, T, head_size>> /\ WellShaped3(q)
    /\ pc \in {"scored", "scaled", "masked", "normalised", "done"} =>
          W.shape = <<B, T, T>> /\ WellShaped3(W)
    /\ pc = "done" =>
          /\ v.shape = <<B, T, head_size>> /\ WellShaped3(v)
          /\ out.shape = <<B, T, head_size>> /\ WellShaped3(out)
          /\ (x.shape = <<2, 4, 5>> /\ head_size = 6) => out.shape = <<2, 4, 6>>

\* C5 witness: the (2,4,5) input with H = 6, finished.
C5_Witness ==
    pc = "done" /\ x.shape = <<2, 4, 5>> /\ head_size = 6
    /\ out.shape = <<2, 4, 6>>

\* C6: the mask is the T x T matrix with 1 at (i,j) exactly when j <= i and 0
\* exactly when j > i, a function of T alone; masked_fill sets to -inf exactly
\* the entries with j > i and leaves the others their scaled score; for T = 4
\* the mask is the literal lower-triangular matrix.
C6_Mask ==
    /\ pc \in {"masked", "normalised", "done"} =>
          /\ tril.shape = <<T, T>>
          /\ tril.data = [i \in 1..T |-> [j \in 1..T |->
                                             IF j <= i THEN 1 ELSE 0]]
          /\ T = 4 => tril.data = << <<1, 0, 0, 0>>, <<1, 1, 0, 0>>,
                                     <<1, 1, 1, 0>>, <<1, 1, 1, 1>> >>
    /\ pc = "masked" =>
          \A b \in 1..B, i \in 1..T, j \in 1..T :
             /\ W.data[b][i][j] = NEG_INF <=> j > i
             /\ j <= i =>
                  W.data[b][i][j] = RawScores.data[b][i][j] * InvSqrt(ScaleDim)

\* C6 witness: the masked scores of a batch of sequences of length 4.
C6_Witness ==
    /\ pc = "masked" /\ T = 4 /\ B >= 2
    /\ W.data[2][1][2] = NEG_INF /\ W.data[2][2][1] # 0

\* C7: no step of cell 3 changes emb_tok or emb_pos, no step but the
\* construction of the layers changes the projection matrices, and a second
\* run that draws the same projection matrices ends with the same output.
C7_NoSideEffects ==
    [][ /\ emb_tok' = emb_tok
        /\ emb_pos' = emb_pos
        /\ pc # "summed" => (key' = key /\ query' = query /\ value' = value)
        /\ (pc' = "done" /\ run' = "again" /\ key' = prev'.key
              /\ query' = prev'.query /\ value' = prev'.value)
           => out' = prev'.out ]_vars

\* C7 witness: a second run with the projection matrices of the first, which
\* ended with the same, non-zero, output.
C7_Witness ==
    /\ pc = "done" /\ run = "again"
    /\ key = prev.key /\ query = prev.query /\ value = prev.value
    /\ out = prev.out
    /\ \E b \in 1..B, i \in 1..T, h \in 1..head_size : out.data[b][i][h] # 0

\* the characters of a string all belong to the vocabulary
InVocab(str) == \A n \in 1..Len(str) : \E m \in 1..Len(vocab) : vocab[m] = str[n]

\* C8: every vocabulary character has an id in 0..vocab_size-1, different
\* characters have different ids, decode(encode(s)) is s for every string s
\* over the vocabulary, and encode of a string with a character outside the
\* vocabulary raises KeyError and returns nothing.
C8_EncodeDecode ==
    /\ \A m \in 1..Len(vocab) :
          /\ vtoi[vocab[m]] \in 0..(vocab_size - 1)
          /\ \A n \in 1..Len(vocab) :
                vocab[n] # vocab[m] => vtoi[vocab[n]] # vtoi[vocab[m]]
    /\ pc = "tok_done" => dec = s
    /\ (InVocab(s) /\ pc # "encode_call") =>
          (pc \in {"decode_call", "tok_done"} /\ Len(enc) = Len(s))
    /\ (~InVocab(s) /\ pc # "encode_call") =>
          (pc = "failed" /\ err = KeyError /\ enc = None)

\* C8 witness: a string of different vocabulary characters, encoded and
\* decoded.
C8_Witness ==
    pc = "tok_done" /\ Len(s) >= 2 /\ s[1] # s[2] /\ dec = s

\* C9 (as claimed): get_batch returns batch_size sequences of block_size ids.
C9_BatchSize ==
    pc = "batched" =>
       /\ x.shape = <<batch_size, block_size>>
       /\ y.shape = <<batch_size, block_size>>
       /\ B = batch_size

\* C10: every start index get_batch draws leaves both of its slices inside
\* data, each of exactly block_size elements, so the stack succeeds; and row
\* r of y is data from ix[r]+1 on: row r of x shifted by one position.
C10_Slices ==
    /\ pc # "failed"
    /\ pc = "batched" =>
          \A r \in 1..Len(ix) :
             /\ 0 <= ix[r] /\ ix[r] < Len(text_enc) - block_size - 1
             /\ ix[r] + block_size + 1 <= Len(data)
             /\ Len(x.data[r]) = block_size
             /\ Len(y.data[r]) = block_size
             /\ \A t \in 1..block_size :
                   /\ x.data[r][t] = data[ix[r] + t]
                   /\ y.data[r][t] = data[ix[r] + t + 1]
             /\ \A t \in 1..(block_size - 1) :
                   y.data[r][t] = x.data[r][t + 1]

\* C10 witness: a batch holding both the first and the last start index.
C10_Witness ==
    /\ pc = "batched"
    /\ ix[1] = 0
    /\ ix[2] = Len(text_enc) - block_size - 2
    /\ y.data[2][block_size] = data[Len(data) - 1]

=============================================================================
